---- MODULE Spec2Model ----
(***************************************************************************)
(* The Star Wars catalog-and-favorites service (src/src/app.py,            *)
(* src/src/models.py) as a state machine.                                  *)
(*                                                                         *)
(* State: the four tables (users, people, planets, favorites), the         *)
(* storage back end chosen at start-up (DATABASE_URL, else the SQLite      *)
(* file), the per-table id sequences, and for every add-favorite request   *)
(* in flight its position in its handler.                                  *)
(*                                                                         *)
(* add_favorite_* looks its target up, commits later and serializes after  *)
(* the commit; other requests may commit in between, so it is three steps. *)
(* The other handlers are one step each: their read and their              *)
(* single-statement write (or their serialization) are not separated.      *)
(*                                                                         *)
(* Only the `name` column of Person and Planet is kept: the other columns  *)
(* are nullable, unconstrained and read by nothing but serialize().  The   *)
(* read-only entity routes (GET /people, /planets, /users) are left out.   *)
(***************************************************************************)
EXTENDS Integers, Sequences, FiniteSets, TLC

\* ------------------------------------------------------------------ bounds
MaxUser == 2        \* user ids are 1..MaxUser
MaxPersonId == 1    \* Person ids are allocated up to MaxPersonId
MaxPlanetId == 1    \* Planet ids are allocated up to MaxPlanetId
MaxFavId == 2       \* Favorite ids are allocated up to MaxFavId
NumWorkers == 2     \* requests served concurrently
MaxHeaderLen == 1   \* characters of an X-User-Id header value

Workers == 1..NumWorkers
UserIds == 1..MaxUser
PersonIds == 1..MaxPersonId     \* the <int:people_id> of a URL
PlanetIds == 1..MaxPlanetId     \* the <int:planet_id> of a URL
TargetIds(kind) == IF kind = "person" THEN PersonIds ELSE PlanetIds

\* SQL NULL / Python None in an integer column (ids are >= 1, URL ints >= 0).
NULL == -1

VARIABLES
    backend,    \* "sqlite" | "postgresql": SQLALCHEMY_DATABASE_URI
    users,      \* set of User ids
    people,     \* [id -> [name]] over the existing Person ids
    planets,    \* [id -> [name]] over the existing Planet ids
    favorites,  \* set of Favorite rows
    seq,        \* [table -> last value of its id sequence] (postgresql)
    pc,         \* [worker -> position in the handler it is serving]
    local,      \* [worker -> the handler's local variables]
    resp        \* the response returned by the last step, or NoResp

vars == <<backend, users, people, planets, favorites, seq, pc, local, resp>>

\* ------------------------------------------------------- python / json values
PyNone == [t |-> "None"]
Str(s) == [t |-> "str", v |-> s]
Dict(d) == [t |-> "dict", d |-> d]

\* Python truthiness of a JSON value (None, "" are falsy).
Truthy(x) == x.t = "str" /\ x.v # ""

\* dict.get(key)
DictGet(data, key) == IF key \in DOMAIN data.d THEN data.d[key] ELSE PyNone

PersonNames == {"Luke"}
PlanetNames == {"Tatooine"}

JsonValues(names) == {PyNone, Str("")} \cup {Str(n) : n \in names}

\* request.get_json(silent=True): None (no / unparseable / null body) or a dict.
Bodies(names) ==
    {PyNone} \cup
    {Dict(d) : d \in [{"bogus"} -> {Str("1")}] \cup [{"name"} -> JsonValues(names)]}

\* ------------------------------------------------------------- headers
Digits == <<"0", "1", "2", "3", "4", "5", "6", "7", "8", "9">>
DigitChars == {Digits[i] : i \in 1..Len(Digits)}
DigitVal(c) == CHOOSE i \in 0..9 : Digits[i + 1] = c

HeaderChars == {Digits[i + 1] : i \in 1..MaxUser} \cup {"x"}

RECURSIVE SeqsUpTo(_, _)
SeqsUpTo(S, n) ==
    IF n = 0 THEN {<<>>}
    ELSE LET shorter == SeqsUpTo(S, n - 1)
         IN shorter \cup {Append(s, c) : s \in {t \in shorter : Len(t) = n - 1}, c \in S}

\* request.headers.get("X-User-Id"): None when the header is absent, else its text.
NoHeader == [present |-> FALSE]
Header(text) == [present |-> TRUE, text |-> text]
Headers == {NoHeader} \cup {Header(s) : s \in SeqsUpTo(HeaderChars, MaxHeaderLen)}

\* int(text) for the texts drawn here (decimal digits or a letter):
\* ValueError on the empty string and on any non-digit.
RECURSIVE DecimalValue(_)
DecimalValue(s) ==
    IF Len(s) = 0 THEN 0
    ELSE 10 * DecimalValue(SubSeq(s, 1, Len(s) - 1)) + DigitVal(s[Len(s)])

ParseInt(s) ==
    IF Len(s) > 0 /\ \A i \in 1..Len(s) : s[i] \in DigitChars
    THEN [ok |-> TRUE, value |-> DecimalValue(s)]
    ELSE [ok |-> FALSE]

Min(S) == CHOOSE x \in S : \A y \in S : x <= y
Max(S) == CHOOSE x \in S : \A y \in S : x >= y

\* get_current_user(): the User, or the APIException raised.
get_current_user(h, us) ==
    IF h.present /\ Len(h.text) > 0
    THEN LET uid == ParseInt(h.text)
         IN IF ~uid.ok THEN [ok |-> FALSE, status |-> 400]
            ELSE IF uid.value \notin us THEN [ok |-> FALSE, status |-> 404]
            ELSE [ok |-> TRUE, id |-> uid.value]
    ELSE IF us = {} THEN [ok |-> FALSE, status |-> 400]
         ELSE [ok |-> TRUE, id |-> Min(us)]

\* ------------------------------------------------------------- storage
\* SQLite enforces FOREIGN KEY clauses (and their ON DELETE action) only after
\* PRAGMA foreign_keys=ON, which nothing in the application issues.
ForeignKeysEnforced == backend = "postgresql"

\* The id a new row gets.  SQLite: an INTEGER PRIMARY KEY is the rowid,
\* max(rowid) + 1; PostgreSQL: the next value of the table's sequence.
NextId(table, ids) ==
    IF backend = "sqlite"
    THEN (IF ids = {} THEN 1 ELSE Max(ids) + 1)
    ELSE seq[table] + 1

\* The sequence after an INSERT was attempted (a rolled back INSERT keeps the value drawn).
SeqAfterInsert(table) ==
    IF backend = "sqlite" THEN seq ELSE [seq EXCEPT ![table] = @ + 1]

FavIds == {f.id : f \in favorites}

\* Favorite(user_id=..., item_type=..., person_id=..., planet_id=...)
Favorite(id, user_id, item_type, person_id, planet_id) ==
    [id |-> id, user_id |-> user_id, item_type |-> item_type,
     person_id |-> person_id, planet_id |-> planet_id]

ck_favorite_one_target(f) == (f.person_id # NULL) # (f.planet_id # NULL)
ck_favorite_type_person(f) == f.person_id = NULL \/ f.item_type = "person"
ck_favorite_type_planet(f) == f.planet_id = NULL \/ f.item_type = "planet"

\* Mutants of the two UNIQUE constraints: the constraint left out of the table.
uq_user_person_fav_missing(f, rows) == TRUE
uq_user_planet_fav_missing(f, rows) == TRUE

\* UNIQUE (user_id, person_id, item_type): rows with a NULL member never collide.
uq_user_person_fav(f, rows) ==
    f.person_id = NULL \/
    ~\E r \in rows : r.user_id = f.user_id /\ r.person_id = f.person_id
                     /\ r.item_type = f.item_type

uq_user_planet_fav(f, rows) ==
    f.planet_id = NULL \/
    ~\E r \in rows : r.user_id = f.user_id /\ r.planet_id = f.planet_id
                     /\ r.item_type = f.item_type

\* The three ForeignKey columns of Favorite, where the back end enforces them.
fk_favorite(f) ==
    ForeignKeysEnforced =>
        /\ f.user_id \in users
        /\ f.person_id = NULL \/ f.person_id \in DOMAIN people
        /\ f.planet_id = NULL \/ f.planet_id \in DOMAIN planets

\* The INSERT of f commits; otherwise the commit raises IntegrityError.
InsertAccepted(f) ==
    /\ ck_favorite_one_target(f)
    /\ ck_favorite_type_person(f)
    /\ ck_favorite_type_planet(f)
    /\ uq_user_person_fav(f, favorites)
    /\ uq_user_planet_fav(f, favorites)
    /\ fk_favorite(f)

\* Mutant of the cascade: ondelete="SET NULL" in place of "CASCADE".
OnDeleteSetNull(rows, column, id) ==
    IF ForeignKeysEnforced
    THEN {IF r[column] = id THEN [r EXCEPT ![column] = NULL] ELSE r : r \in rows}
    ELSE rows

\* ON DELETE CASCADE of favorites.person_id / planet_id, run by the back end
\* with the parent's DELETE (passive_deletes=True: the ORM deletes no children
\* that it has not loaded, and the handlers load none).
OnDeleteCascade(rows, column, id) ==
    IF ForeignKeysEnforced THEN {r \in rows : r[column] # id} ELSE rows

\* ------------------------------------------------------------- serialize
SerializeEntity(table, id) == [id |-> id, name |-> table[id].name]

\* Favorite.serialize(): self.person / self.planet are loaded from the tables
\* as they are when it runs, and are None when the row is gone.
SerializeFavorite(f) ==
    LET base == [id |-> f.id, user_id |-> f.user_id, item_type |-> f.item_type]
        withPerson ==
            IF f.item_type = "person" /\ f.person_id \in DOMAIN people
            THEN base @@ ("person" :> SerializeEntity(people, f.person_id))
            ELSE base
    IN IF f.item_type = "planet" /\ f.planet_id \in DOMAIN planets
       THEN withPerson @@ ("planet" :> SerializeEntity(planets, f.planet_id))
       ELSE withPerson

RECURSIVE OrderById(_)
OrderById(rows) ==
    IF rows = {} THEN <<>>
    ELSE LET first == CHOOSE r \in rows : \A o \in rows : r.id <= o.id
         IN <<first>> \o OrderById(rows \ {first})

RECURSIVE MapSerialize(_)
MapSerialize(s) ==
    IF s = <<>> THEN <<>> ELSE <<SerializeFavorite(Head(s))>> \o MapSerialize(Tail(s))

\* ------------------------------------------------------------- responses
NoResp == [op |-> "none"]
Response(op, status, body) == [op |-> op, status |-> status, body |-> body]
Msg == "msg"

Idle == [user_id |-> NULL, kind |-> "none", target |-> NULL, fav_id |-> NULL]

Init ==
    /\ backend \in {"sqlite", "postgresql"}
    /\ users \in SUBSET UserIds
    /\ people = <<>>
    /\ planets = <<>>
    /\ favorites = {}
    /\ seq = [people |-> 0, planets |-> 0, favorites |-> 0]
    /\ pc = [w \in Workers |-> "idle"]
    /\ local = [w \in Workers |-> Idle]
    /\ resp = NoResp

\* --------------------------------------------------------- entity store
\* Restrict a table to the ids other than id.
Without(table, id) == [i \in DOMAIN table \ {id} |-> table[i]]
With(table, id, row) == [i \in DOMAIN table \cup {id} |-> IF i = id THEN row ELSE table[i]]

\* POST /people, POST /planets
CreateEntity(op, kind, table, data) ==
    LET id == NextId(kind, DOMAIN table) IN
    IF data = PyNone \/ ~Truthy(DictGet(data, "name"))
    THEN [table |-> table, seq |-> seq, resp |-> Response(op, 400, Msg)]
    ELSE [table |-> With(table, id, [name |-> data.d["name"].v]),
          seq |-> SeqAfterInsert(kind),
          resp |-> Response(op, 201, [id |-> id, name |-> data.d["name"].v])]

\* PUT /people/<id>, PUT /planets/<id>: setattr for the allowed keys, then commit
\* (name is NOT NULL: a None raises IntegrityError, which no handler catches).
UpdateEntity(op, table, id, data) ==
    IF id \notin DOMAIN table
    THEN [table |-> table, resp |-> Response(op, 404, Msg)]
    ELSE IF data = PyNone
    THEN [table |-> table, resp |-> Response(op, 400, Msg)]
    ELSE IF "name" \notin DOMAIN data.d
    THEN [table |-> table,
          resp |-> Response(op, 200, SerializeEntity(table, id))]
    ELSE IF data.d["name"] = PyNone
    THEN [table |-> table, resp |-> Response(op, 500, Msg)]
    ELSE LET new == With(table, id, [name |-> data.d["name"].v])
         IN [table |-> new,
             resp |-> Response(op, 200, SerializeEntity(new, id))]

create_person ==
    /\ \E data \in Bodies(PersonNames) :
        LET r == CreateEntity("create_person", "people", people, data) IN
        /\ r.resp.status = 201 => NextId("people", DOMAIN people) <= MaxPersonId
        /\ people' = r.table
        /\ seq' = r.seq
        /\ resp' = r.resp
    /\ UNCHANGED <<backend, users, planets, favorites, pc, local>>

create_planet ==
    /\ \E data \in Bodies(PlanetNames) :
        LET r == CreateEntity("create_planet", "planets", planets, data) IN
        /\ r.resp.status = 201 => NextId("planets", DOMAIN planets) <= MaxPlanetId
        /\ planets' = r.table
        /\ seq' = r.seq
        /\ resp' = r.resp
    /\ UNCHANGED <<backend, users, people, favorites, pc, local>>

update_person ==
    /\ \E id \in PersonIds, data \in Bodies(PersonNames) :
        LET r == UpdateEntity("update_person", people, id, data) IN
        /\ people' = r.table
        /\ resp' = r.resp
    /\ UNCHANGED <<backend, users, planets, favorites, seq, pc, local>>

update_planet ==
    /\ \E id \in PlanetIds, data \in Bodies(PlanetNames) :
        LET r == UpdateEntity("update_planet", planets, id, data) IN
        /\ planets' = r.table
        /\ resp' = r.resp
    /\ UNCHANGED <<backend, users, people, favorites, seq, pc, local>>

\* DELETE /people/<id>
delete_person ==
    /\ \E id \in PersonIds :
        IF id \notin DOMAIN people
        THEN /\ resp' = Response("delete_person", 404, Msg)
             /\ UNCHANGED <<people, favorites>>
        ELSE /\ people' = Without(people, id)
             /\ favorites' = OnDeleteCascade(favorites, "person_id", id)
             /\ resp' = Response("delete_person", 200, Msg)
    /\ UNCHANGED <<backend, users, planets, seq, pc, local>>

\* DELETE /planets/<id>
delete_planet ==
    /\ \E id \in PlanetIds :
        IF id \notin DOMAIN planets
        THEN /\ resp' = Response("delete_planet", 404, Msg)
             /\ UNCHANGED <<planets, favorites>>
        ELSE /\ planets' = Without(planets, id)
             /\ favorites' = OnDeleteCascade(favorites, "planet_id", id)
             /\ resp' = Response("delete_planet", 200, Msg)
    /\ UNCHANGED <<backend, users, people, seq, pc, local>>

\* ------------------------------------------------- favorite association
\* The row add_favorite_planet / add_favorite_person hands to the session.
NewFavoritePlanet(id, user_id, planet_id) == Favorite(id, user_id, "planet", NULL, planet_id)
NewFavoritePerson(id, user_id, people_id) == Favorite(id, user_id, "person", people_id, NULL)

Table(kind) == IF kind = "person" THEN people ELSE planets
AddOp(kind) == IF kind = "person" THEN "add_favorite_person" ELSE "add_favorite_planet"
DelOp(kind) == IF kind = "person" THEN "delete_favorite_person" ELSE "delete_favorite_planet"

\* POST /favorite/<kind>/<id>, up to db.session.add(fav): resolve the user,
\* then the target.
AddFavoriteLookup(w, kind, h, id) ==
    /\ pc[w] = "idle"
    /\ LET user == get_current_user(h, users) IN
       IF ~user.ok
       THEN /\ resp' = Response(AddOp(kind), user.status, Msg)
            /\ UNCHANGED <<pc, local>>
       ELSE IF id \notin DOMAIN Table(kind)
       THEN /\ resp' = Response(AddOp(kind), 404, Msg)
            /\ UNCHANGED <<pc, local>>
       ELSE /\ pc' = [pc EXCEPT ![w] = "add_commit"]
            /\ local' = [local EXCEPT ![w] =
                            [user_id |-> user.id, kind |-> kind, target |-> id, fav_id |-> NULL]]
            /\ resp' = NoResp
    /\ UNCHANGED <<backend, users, people, planets, favorites, seq>>

\* db.session.commit() of the new Favorite; IntegrityError -> rollback, 409.
AddFavoriteCommit(w, kind) ==
    /\ pc[w] = "add_commit"
    /\ local[w].kind = kind
    /\ LET id == NextId("favorites", FavIds)
           fav == IF kind = "person"
                  THEN NewFavoritePerson(id, local[w].user_id, local[w].target)
                  ELSE NewFavoritePlanet(id, local[w].user_id, local[w].target)
       IN /\ id <= MaxFavId
          /\ seq' = SeqAfterInsert("favorites")
          /\ IF InsertAccepted(fav)
             THEN /\ favorites' = favorites \cup {fav}
                  /\ pc' = [pc EXCEPT ![w] = "add_return"]
                  /\ local' = [local EXCEPT ![w] =
                                [user_id |-> NULL, kind |-> kind, target |-> NULL, fav_id |-> id]]
                  /\ resp' = NoResp
             ELSE /\ favorites' = favorites
                  /\ pc' = [pc EXCEPT ![w] = "idle"]
                  /\ local' = [local EXCEPT ![w] = Idle]
                  /\ resp' = Response(AddOp(kind), 409, Msg)
    /\ UNCHANGED <<backend, users, people, planets>>

\* return jsonify(fav.serialize()), 201: the commit expired fav, so serialize()
\* reloads the row by its primary key (ObjectDeletedError when it is gone).
AddFavoriteReturn(w, kind) ==
    /\ pc[w] = "add_return"
    /\ local[w].kind = kind
    /\ IF local[w].fav_id \in FavIds
       THEN LET fav == CHOOSE f \in favorites : f.id = local[w].fav_id
            IN resp' = Response(AddOp(kind), 201, SerializeFavorite(fav))
       ELSE resp' = Response(AddOp(kind), 500, Msg)
    /\ pc' = [pc EXCEPT ![w] = "idle"]
    /\ local' = [local EXCEPT ![w] = Idle]
    /\ UNCHANGED <<backend, users, people, planets, favorites, seq>>

\* Mutant of the lookup: the user_id filter left out.
MatchingAnyUser(user_id, kind, id) ==
    {f \in favorites :
        /\ f.item_type = kind
        /\ (IF kind = "person" THEN f.person_id ELSE f.planet_id) = id}

\* filter_by(user_id=..., item_type=..., <kind>_id=...)
Matching(user_id, kind, id) ==
    {f \in favorites :
        /\ f.user_id = user_id
        /\ f.item_type = kind
        /\ (IF kind = "person" THEN f.person_id ELSE f.planet_id) = id}

\* DELETE /favorite/<kind>/<id>: resolve the user, find the row, delete it.
DeleteFavorite(kind, h, id) ==
    /\ LET user == get_current_user(h, users) IN
       IF ~user.ok
       THEN /\ resp' = Response(DelOp(kind), user.status, Msg)
            /\ UNCHANGED favorites
       ELSE IF Matching(user.id, kind, id) = {}
       THEN /\ resp' = Response(DelOp(kind), 404, Msg)
            /\ UNCHANGED favorites
       ELSE LET fav == CHOOSE f \in Matching(user.id, kind, id) :
                            \A o \in Matching(user.id, kind, id) : f.id <= o.id
            IN /\ favorites' = favorites \ {fav}
               /\ resp' = Response(DelOp(kind), 200, Msg)
    /\ UNCHANGED <<backend, users, people, planets, seq, pc, local>>

add_favorite_planet(w) == \E h \in Headers, id \in PlanetIds : AddFavoriteLookup(w, "planet", h, id)
add_favorite_planet_commit(w) == AddFavoriteCommit(w, "planet")
add_favorite_planet_return(w) == AddFavoriteReturn(w, "planet")

add_favorite_person(w) == \E h \in Headers, id \in PersonIds : AddFavoriteLookup(w, "person", h, id)
add_favorite_person_commit(w) == AddFavoriteCommit(w, "person")
add_favorite_person_return(w) == AddFavoriteReturn(w, "person")

delete_favorite_planet == \E h \in Headers, id \in PlanetIds : DeleteFavorite("planet", h, id)

delete_favorite_person == \E h \in Headers, id \in PersonIds : DeleteFavorite("person", h, id)

\* GET /users/favorites
ListUserFavorites(h) ==
    /\ LET user == get_current_user(h, users) IN
       IF ~user.ok
       THEN resp' = Response("list_user_favorites", user.status, Msg)
       ELSE resp' = Response("list_user_favorites", 200,
                        MapSerialize(OrderById({f \in favorites : f.user_id = user.id})))
    /\ UNCHANGED <<backend, users, people, planets, favorites, seq, pc, local>>

list_user_favorites == \E h \in Headers : ListUserFavorites(h)

\* GET /user
GetCurrentUserEndpoint(h) ==
    /\ LET user == get_current_user(h, users) IN
       IF ~user.ok
       THEN resp' = Response("get_current_user_endpoint", user.status, Msg)
       ELSE resp' = Response("get_current_user_endpoint", 200, [id |-> user.id])
    /\ UNCHANGED <<backend, users, people, planets, favorites, seq, pc, local>>

get_current_user_endpoint == \E h \in Headers : GetCurrentUserEndpoint(h)

\* Every handler but the two PUT handlers, which write nothing but the name
\* column of their own table.
Next ==
    \/ create_person
    \/ create_planet
    \/ delete_person
    \/ delete_planet
    \/ list_user_favorites
    \/ get_current_user_endpoint
    \/ delete_favorite_planet
    \/ delete_favorite_person
    \/ \E w \in Workers :
        \/ add_favorite_planet(w)
        \/ add_favorite_planet_commit(w)
        \/ add_favorite_planet_return(w)
        \/ add_favorite_person(w)
        \/ add_favorite_person_commit(w)
        \/ add_favorite_person_return(w)

Spec == Init /\ [][Next]_vars

\* The Entity Store alone: create, update and delete of Person and Planet.
NextEntity ==
    \/ create_person
    \/ create_planet
    \/ update_person
    \/ update_planet
    \/ delete_person
    \/ delete_planet

SpecEntity == Init /\ [][NextEntity]_vars

\* ============================================================== properties
Kinds == {"person", "planet"}
TargetOf(f) == IF f.item_type = "person" THEN f.person_id ELSE f.planet_id

\* The rows of `rows` for the favorite (u, kind, id).
RowsFor(rows, u, kind, id) ==
    {f \in rows : f.user_id = u /\ f.item_type = kind /\ TargetOf(f) = id}

AddCommitStep(w) == pc[w] = "add_commit" /\ pc'[w] # "add_commit"
AddReturnStep(w) == pc[w] = "add_return" /\ pc'[w] # "add_return"

\* C1: every Favorite row has exactly one of person_id / planet_id non-null,
\* and item_type is "person" exactly when it is person_id, "planet" exactly
\* when it is planet_id.
C1_OneTargetMatchingType ==
    \A f \in favorites :
        /\ (f.person_id # NULL) # (f.planet_id # NULL)
        /\ f.item_type = "person" <=> f.person_id # NULL
        /\ f.item_type = "planet" <=> f.planet_id # NULL

C1_Witness ==
    /\ \E f \in favorites : f.item_type = "person"
    /\ \E f \in favorites : f.item_type = "planet"

\* C2: under any interleaving of add-favorite requests there is never more
\* than one Favorite row for a (user_id, item_type, target id); a commit that
\* finds the row already there is rejected with 409 and writes nothing, and a
\* commit that finds none, for a target that exists, inserts exactly one.
C2_NoDuplicateFavorite ==
    /\ [](\A f, g \in favorites :
            (f.user_id = g.user_id /\ f.item_type = g.item_type /\ TargetOf(f) = TargetOf(g))
                => f = g)
    /\ [][\A w \in Workers : AddCommitStep(w) =>
            LET l == local[w] IN
            IF RowsFor(favorites, l.user_id, l.kind, l.target) # {}
            THEN /\ favorites' = favorites
                 /\ resp'.op = AddOp(l.kind) /\ resp'.status = 409
                 /\ pc'[w] = "idle"
            ELSE l.target \in DOMAIN Table(l.kind) =>
                 /\ pc'[w] = "add_return"
                 /\ Cardinality(favorites') = Cardinality(favorites) + 1
                 /\ Cardinality(RowsFor(favorites', l.user_id, l.kind, l.target)) = 1]_vars

\* The loser of a race is answered 409 while the winner has not yet returned.
C2_Witness ==
    /\ resp.op = "add_favorite_planet" /\ resp.status = 409
    /\ \E w \in Workers :
        /\ pc[w] = "add_return" /\ local[w].kind = "planet"
        /\ \E f \in favorites : f.id = local[w].fav_id /\ f.item_type = "planet"

\* C3: add-favorite twice for the same user and target: the first commit
\* inserts the row and returns 201 with the serialized favorite; the second
\* is answered 409 and leaves the Favorite rows as they were, one for the key.
C3_SecondAddRejected ==
    [][\A w \in Workers :
        /\ AddCommitStep(w) =>
            LET l == local[w] IN
            /\ RowsFor(favorites, l.user_id, l.kind, l.target) # {} =>
                /\ resp'.op = AddOp(l.kind) /\ resp'.status = 409
                /\ favorites' = favorites
                /\ Cardinality(RowsFor(favorites', l.user_id, l.kind, l.target)) = 1
            /\ (RowsFor(favorites, l.user_id, l.kind, l.target) = {}
                    /\ l.target \in DOMAIN Table(l.kind)) =>
                /\ resp' = NoResp
                /\ \E f \in favorites' \ favorites :
                    /\ f.id = local'[w].fav_id
                    /\ f.user_id = l.user_id /\ f.item_type = l.kind /\ TargetOf(f) = l.target
                    /\ favorites' = favorites \cup {f}
        /\ (AddReturnStep(w) /\ \E f \in favorites : f.id = local[w].fav_id) =>
            /\ resp'.op = AddOp(local[w].kind) /\ resp'.status = 201
            /\ resp'.body.id = local[w].fav_id
            /\ \E f \in favorites :
                /\ f.id = resp'.body.id
                /\ resp'.body.user_id = f.user_id /\ resp'.body.item_type = f.item_type
            /\ favorites' = favorites]_vars

C3_Witness ==
    /\ resp.op = "add_favorite_person" /\ resp.status = 409
    /\ \A w \in Workers : pc[w] = "idle"
    /\ \E u \in users, id \in PersonIds :
        Cardinality(RowsFor(favorites, u, "person", id)) = 1

\* C4: deleting an existing Planet (or Person) removes exactly the Favorite
\* rows that reference it, leaves every other Favorite row unchanged, and
\* returns 200.
C4_DeleteRemovesExactlyItsFavorites ==
    [][/\ \A id \in PlanetIds :
            (id \in DOMAIN planets /\ id \notin DOMAIN planets') =>
                /\ favorites' = {f \in favorites : f.planet_id # id}
                /\ resp'.op = "delete_planet" /\ resp'.status = 200
       /\ \A id \in PersonIds :
            (id \in DOMAIN people /\ id \notin DOMAIN people') =>
                /\ favorites' = {f \in favorites : f.person_id # id}
                /\ resp'.op = "delete_person" /\ resp'.status = 200]_vars

\* C5: every Favorite row references a Person or Planet that exists.
C5_NoOrphanedFavorite ==
    \A f \in favorites :
        /\ f.person_id # NULL => f.person_id \in DOMAIN people
        /\ f.planet_id # NULL => f.planet_id \in DOMAIN planets

\* C6: every favorite returned by add-favorite or by the favorites list
\* carries id, user_id, item_type and exactly the nested object its item_type
\* names.
SerializedWithOneTarget(b) ==
    /\ {"id", "user_id", "item_type"} \subseteq DOMAIN b
    /\ b.item_type = "person" => ("person" \in DOMAIN b /\ "planet" \notin DOMAIN b)
    /\ b.item_type = "planet" => ("planet" \in DOMAIN b /\ "person" \notin DOMAIN b)

C6_SerializedHasExactlyOneTarget ==
    /\ (resp.op \in {"add_favorite_person", "add_favorite_planet"} /\ resp.status = 201)
            => SerializedWithOneTarget(resp.body)
    /\ (resp.op = "list_user_favorites" /\ resp.status = 200)
            => \A i \in 1..Len(resp.body) : SerializedWithOneTarget(resp.body[i])

\* C7: remove-favorite for a user the request resolves to, when no Favorite
\* row with exactly that (user_id, item_type, target id) exists, returns 404
\* and leaves the Favorite rows unchanged.
C7_RemoveMissingIs404 ==
    [][\A kind \in Kinds, h \in Headers : \A id \in TargetIds(kind) :
        LET user == get_current_user(h, users) IN
        (resp'.op = DelOp(kind) /\ user.ok
            /\ RowsFor(favorites, user.id, kind, id) = {}
            /\ DeleteFavorite(kind, h, id)) =>
                /\ resp' = Response(DelOp(kind), 404, Msg)
                /\ favorites' = favorites]_vars

\* The favorite exists, but only for the other user: with every user id of
\* the header alphabet existing, a 404 is the favorite's.
C7_Witness ==
    /\ users = UserIds
    /\ resp = Response("delete_favorite_planet", 404, Msg)
    /\ \E f \in favorites : f.item_type = "planet"
    /\ \E f \in favorites : f.item_type = "person"
    /\ \E u \in users : \A id \in PlanetIds : RowsFor(favorites, u, "planet", id) = {}

\* C8: a request that carries the identity header acts only as the User whose
\* id is the header's integer, or fails with 404 when there is none and with
\* 400 when the value is no integer; only a request without the header acts
\* as the lowest-id User (400 when there is none).  A failing request creates
\* and deletes no Favorite row.
IsIntegerText(s) == Len(s) > 0 /\ \A i \in 1..Len(s) : s[i] \in DigitChars

ExpectedIdentity(h) ==
    IF h.present
    THEN IF ~IsIntegerText(h.text) THEN [ok |-> FALSE, status |-> 400]
         ELSE IF DecimalValue(h.text) \notin users THEN [ok |-> FALSE, status |-> 404]
         ELSE [ok |-> TRUE, id |-> DecimalValue(h.text)]
    ELSE IF users = {} THEN [ok |-> FALSE, status |-> 400]
         ELSE [ok |-> TRUE, id |-> Min(users)]

C8_HeaderIdentityNeverFallsBack ==
    [][\A h \in Headers :
        LET e == ExpectedIdentity(h) IN
        /\ GetCurrentUserEndpoint(h) =>
            IF e.ok THEN resp'.status = 200 /\ resp'.body.id = e.id
            ELSE resp'.status = e.status
        /\ ListUserFavorites(h) =>
            IF e.ok
            THEN /\ resp'.status = 200
                 /\ \A i \in 1..Len(resp'.body) : resp'.body[i].user_id = e.id
            ELSE resp'.status = e.status
        /\ \A kind \in Kinds : \A id \in TargetIds(kind) :
            /\ DeleteFavorite(kind, h, id) =>
                IF e.ok THEN \A f \in favorites \ favorites' : f.user_id = e.id
                ELSE resp'.status = e.status /\ favorites' = favorites
            /\ \A w \in Workers : AddFavoriteLookup(w, kind, h, id) =>
                IF e.ok THEN pc'[w] = "add_commit" => local'[w].user_id = e.id
                ELSE resp'.status = e.status /\ pc'[w] = "idle" /\ favorites' = favorites]_vars

\* C9: every stored Person and Planet has a non-empty name.
C9_StoredNameNonEmpty ==
    /\ \A id \in DOMAIN people : people[id].name # ""
    /\ \A id \in DOMAIN planets : planets[id].name # ""

\* C10: add-favorite answers 409 only when a Favorite row for the same
\* (user_id, item_type, target id) exists when its commit is rejected, and a
\* commit for a target that no longer exists creates no Favorite row.
C10_ConflictOnlyForDuplicate ==
    [][\A w \in Workers : AddCommitStep(w) =>
        LET l == local[w] IN
        /\ (resp'.op = AddOp(l.kind) /\ resp'.status = 409) =>
                RowsFor(favorites, l.user_id, l.kind, l.target) # {}
        /\ l.target \notin DOMAIN Table(l.kind) => favorites' = favorites]_vars
====
